---- MODULE Spec2Model ----
(***************************************************************************)
(* Model of src/exercises/algorithm/algorithm9.rs: Heap<T>, a binary heap   *)
(* over a Vec<T> whose slot 0 is a placeholder, a count of live elements    *)
(* and a comparator fn(&T, &T) -> bool; add (bubble-up) and the Iterator    *)
(* implementation next (bubble-down).                                       *)
(*                                                                         *)
(* The heap's fields are count, items and comparator.  items is a function  *)
(* on 0 .. len-1 (the Vec's indices).  T is modelled by the integers        *)
(* 0 .. MaxVal with T::default() = 0, as for the i32 of the tests.          *)
(* The remaining variables record the calls made so far: they are written   *)
(* by the operations and never read by them.                                *)
(***************************************************************************)
EXTENDS Integers, Sequences, FiniteSets

VARIABLES
    count,       \* Heap.count
    items,       \* Heap.items, a function on 0 .. len-1
    comparator,  \* Heap.comparator, as the name of the function given to new
    panicked,    \* TRUE once an operation panicked (index out of bounds, usize underflow)
    pc,          \* "idle" between calls; "up" / "down" inside the loops (SpecSteps only)
    idx,         \* the loops' local idx
    root_value,  \* next's local root_value
    swaps,       \* exchanges (items.swap) made by the last add or next
    lastOp,      \* the last call that takes &mut self: "new", "add", "next"
    arg,         \* the value given to the last add
    result,      \* what the last next of the current run returned: <<>> for None, <<v>> for Some(v)
    lenSeen,     \* what a len call made since the last add or next returned, as <<n>>
    emptySeen,   \* what an is_empty call made since the last add or next returned, as <<b>>
    prev,        \* what the next call before that one returned, in the same run
    runStart,    \* count when the current run of next calls (no add between) began
    runLen,      \* next calls of the current run
    exhausted,   \* TRUE once a next call has returned None
    preExhausted,\* exhausted before the last next call
    nAdds,       \* add calls since construction
    nSome,       \* next calls that returned Some since construction
    preCount,    \* count before the last call
    preItems     \* items before the last call

vars == <<count, items, comparator, panicked, pc, idx, root_value, swaps,
          lastOp, arg, result, lenSeen, emptySeen, prev, runStart, runLen, exhausted,
          preExhausted, nAdds, nSome, preCount, preItems>>

heap == <<count, items, comparator>>
locals == <<pc, idx, root_value>>

(* Bounds of the model. *)
MaxVal == 2
MaxAdds == 5
MaxNone == 2

Values == 0 .. MaxVal

(* T::default() for the integer element type. *)
Default == 0

(* The comparators: |a, b| a < b (new_min, MinHeap::new), |a, b| a > b      *)
(* (new_max, MaxHeap::new), and two functions a caller may give to new      *)
(* that are not orders.                                                     *)
Comparators == {"min", "max", "never", "always"}

new_min == "min"
new_max == "max"

priority(a, b) ==
    CASE comparator = "min" -> a < b
      [] comparator = "max" -> a > b
      [] comparator = "never" -> FALSE
      [] comparator = "always" -> TRUE

(* Vec operations. *)
VecLen(v) == Cardinality(DOMAIN v)
VecPush(v, x) == [i \in 0 .. VecLen(v) |-> IF i = VecLen(v) THEN x ELSE v[i]]
VecSwap(v, a, b) == [v EXCEPT ![a] = v[b], ![b] = v[a]]
InBounds(v, i) == i \in DOMAIN v

None == <<>>
Some(x) == <<x>>

(* len and is_empty of a heap with items v and count c, lines 30-36. *)
len(v, c) == c

is_empty(v, c) == len(v, c) = 0

parent_idx(i) == i \div 2
left_child_idx(i) == i * 2
right_child_idx(i) == left_child_idx(i) + 1
children_present(c, i) == left_child_idx(i) <= c

(* Mutants of smallest_child_idx: the left child whenever there is one; the *)
(* comparison's arguments exchanged.                                        *)
smallest_child_idx_left(v, c, i) ==
    IF left_child_idx(i) > c THEN i ELSE left_child_idx(i)

smallest_child_idx_flipped(v, c, i) ==
    LET left_idx == left_child_idx(i)
        right_idx == right_child_idx(i)
    IN  IF left_idx > c THEN i
        ELSE IF right_idx > c THEN left_idx
        ELSE IF priority(v[right_idx], v[left_idx]) THEN left_idx
        ELSE right_idx

smallest_child_idx(v, c, i) ==
    LET left_idx == left_child_idx(i)
        right_idx == right_child_idx(i)
    IN  IF left_idx > c THEN i
        ELSE IF right_idx > c THEN left_idx
        ELSE IF priority(v[left_idx], v[right_idx]) THEN left_idx
        ELSE right_idx

(* The indices smallest_child_idx reads. *)
smallest_child_reads(c, i) ==
    IF right_child_idx(i) <= c THEN {left_child_idx(i), right_child_idx(i)} ELSE {}


(***************************************************************************)
(* add, lines 38-61.                                                       *)
(***************************************************************************)

(* Mutant of add_place: the value is pushed only when count > items.len().  *)
add_place_off_by_one(v, c, value) ==
    IF c > VecLen(v) THEN [items |-> VecPush(v, value), panic |-> FALSE]
    ELSE IF InBounds(v, c) THEN [items |-> [v EXCEPT ![c] = value], panic |-> FALSE]
    ELSE [items |-> v, panic |-> TRUE]

(* Lines 40-45: the value goes to slot count (already incremented), pushed  *)
(* when that slot does not exist yet.  c is the incremented count.          *)
add_place(v, c, value) ==
    IF c >= VecLen(v) THEN [items |-> VecPush(v, value), panic |-> FALSE]
    ELSE IF InBounds(v, c) THEN [items |-> [v EXCEPT ![c] = value], panic |-> FALSE]
    ELSE [items |-> v, panic |-> TRUE]

(* Mutant of up_iter: the comparator is asked about (child, parent). *)
up_iter_flipped(v, i) ==
    IF ~(i > 1)
    THEN [items |-> v, idx |-> i, done |-> TRUE, panic |-> FALSE]
    ELSE LET parent == parent_idx(i)
         IN  IF ~(InBounds(v, parent) /\ InBounds(v, i))
             THEN [items |-> v, idx |-> i, done |-> TRUE, panic |-> TRUE]
             ELSE IF priority(v[i], v[parent])
             THEN [items |-> v, idx |-> i, done |-> TRUE, panic |-> FALSE]
             ELSE [items |-> VecSwap(v, parent, i), idx |-> parent,
                   done |-> FALSE, panic |-> FALSE]

(* Mutant of up_iter: after the exchange idx stays at the child. *)
up_iter_stuck(v, i) ==
    IF ~(i > 1)
    THEN [items |-> v, idx |-> i, done |-> TRUE, panic |-> FALSE]
    ELSE LET parent == parent_idx(i)
         IN  IF ~(InBounds(v, parent) /\ InBounds(v, i))
             THEN [items |-> v, idx |-> i, done |-> TRUE, panic |-> TRUE]
             ELSE IF priority(v[parent], v[i])
             THEN [items |-> v, idx |-> i, done |-> TRUE, panic |-> FALSE]
             ELSE [items |-> VecSwap(v, parent, i), idx |-> i,
                   done |-> FALSE, panic |-> FALSE]

(* One evaluation of the while loop of lines 49-60 at idx = i: the loop     *)
(* ends (done) when idx <= 1 or the parent has priority, else parent and    *)
(* child are exchanged and idx becomes the parent's index.                  *)
up_iter(v, i) ==
    IF ~(i > 1)
    THEN [items |-> v, idx |-> i, done |-> TRUE, panic |-> FALSE]
    ELSE LET parent == parent_idx(i)
         IN  IF ~(InBounds(v, parent) /\ InBounds(v, i))
             THEN [items |-> v, idx |-> i, done |-> TRUE, panic |-> TRUE]
             ELSE IF priority(v[parent], v[i])
             THEN [items |-> v, idx |-> i, done |-> TRUE, panic |-> FALSE]
             ELSE [items |-> VecSwap(v, parent, i), idx |-> parent,
                   done |-> FALSE, panic |-> FALSE]

(* The whole loop from idx = i, n exchanges made so far. *)
RECURSIVE bubble_up(_, _, _)
bubble_up(v, i, n) ==
    LET r == up_iter(v, i)
    IN  IF r.done THEN [items |-> r.items, swaps |-> n, panic |-> r.panic]
        ELSE bubble_up(r.items, r.idx, n + 1)

(* Mutant of add_call: count is incremented only when the value is pushed.  *)
add_call_push_counts(v, c, value) ==
    LET c1 == c + 1
        placed == add_place(v, c1, value)
        r == bubble_up(placed.items, c1, 0)
    IN  [count |-> IF c1 >= VecLen(v) THEN c1 ELSE c, items |-> r.items,
         swaps |-> r.swaps, panic |-> r.panic]

(* add(value) on a heap with items v and count c: the fields it leaves and  *)
(* the exchanges it made.                                                   *)
add_call(v, c, value) ==
    LET c1 == c + 1
        placed == add_place(v, c1, value)
    IN  IF placed.panic
        THEN [count |-> c1, items |-> v, swaps |-> 0, panic |-> TRUE]
        ELSE LET r == bubble_up(placed.items, c1, 0)
             IN  [count |-> c1, items |-> r.items, swaps |-> r.swaps, panic |-> r.panic]

(***************************************************************************)
(* next, lines 125-158.                                                    *)
(***************************************************************************)

(* Mutants of next_take: the last live value is not stored in the root; the *)
(* last live value is copied to the root and its slot is left as it was.    *)
next_take_drops_last(v, c) ==
    IF ~(InBounds(v, 1) /\ InBounds(v, c)) \/ c - 1 < 0
    THEN [root_value |-> Default, items |-> v, panic |-> TRUE]
    ELSE [root_value |-> v[1], items |-> [v EXCEPT ![1] = Default, ![c] = Default],
          panic |-> FALSE]

next_take_copies_last(v, c) ==
    IF ~(InBounds(v, 1) /\ InBounds(v, c)) \/ c - 1 < 0
    THEN [root_value |-> Default, items |-> v, panic |-> TRUE]
    ELSE [root_value |-> v[1], items |-> [v EXCEPT ![1] = v[c]], panic |-> FALSE]

(* Lines 131-135: the root is replaced by the default and saved, then the   *)
(* last live slot is replaced by the default and its old value stored in    *)
(* the root.  c is the count before the decrement; the call panics on an    *)
(* index outside the Vec and on count -= 1 at count = 0 (the overflow       *)
(* check; next never gets there, line 126 returns first).                   *)
next_take(v, c) ==
    IF ~(InBounds(v, 1) /\ InBounds(v, c)) \/ c - 1 < 0
    THEN [root_value |-> Default, items |-> v, panic |-> TRUE]
    ELSE LET a == [v EXCEPT ![1] = Default]
             last == a[c]
             b == [a EXCEPT ![c] = Default]
         IN  [root_value |-> v[1], items |-> [b EXCEPT ![1] = last], panic |-> FALSE]

(* Mutants of down_iter: the loop ends at once; the comparator is asked     *)
(* about (child, current).                                                  *)
down_iter_stop(v, c, i) ==
    [items |-> v, idx |-> i, done |-> TRUE, panic |-> FALSE]

down_iter_flipped(v, c, i) ==
    IF ~children_present(c, i)
    THEN [items |-> v, idx |-> i, done |-> TRUE, panic |-> FALSE]
    ELSE IF ~(smallest_child_reads(c, i) \subseteq DOMAIN v)
    THEN [items |-> v, idx |-> i, done |-> TRUE, panic |-> TRUE]
    ELSE LET child == smallest_child_idx(v, c, i)
         IN  IF ~(InBounds(v, i) /\ InBounds(v, child))
             THEN [items |-> v, idx |-> i, done |-> TRUE, panic |-> TRUE]
             ELSE IF priority(v[child], v[i])
             THEN [items |-> v, idx |-> i, done |-> TRUE, panic |-> FALSE]
             ELSE [items |-> VecSwap(v, i, child), idx |-> child,
                   done |-> FALSE, panic |-> FALSE]

(* One evaluation of the while loop of lines 144-155 at idx = i with c live *)
(* elements.                                                                *)
down_iter(v, c, i) ==
    IF ~children_present(c, i)
    THEN [items |-> v, idx |-> i, done |-> TRUE, panic |-> FALSE]
    ELSE IF ~(smallest_child_reads(c, i) \subseteq DOMAIN v)
    THEN [items |-> v, idx |-> i, done |-> TRUE, panic |-> TRUE]
    ELSE LET child == smallest_child_idx(v, c, i)
         IN  IF ~(InBounds(v, i) /\ InBounds(v, child))
             THEN [items |-> v, idx |-> i, done |-> TRUE, panic |-> TRUE]
             ELSE IF priority(v[i], v[child])
             THEN [items |-> v, idx |-> i, done |-> TRUE, panic |-> FALSE]
             ELSE [items |-> VecSwap(v, i, child), idx |-> child,
                   done |-> FALSE, panic |-> FALSE]

RECURSIVE bubble_down(_, _, _, _)
bubble_down(v, c, i, n) ==
    LET r == down_iter(v, c, i)
    IN  IF r.done THEN [items |-> r.items, swaps |-> n, panic |-> r.panic]
        ELSE bubble_down(r.items, c, r.idx, n + 1)

(* Mutants of next_call: without the is_empty check of lines 126-128; with  *)
(* count decremented only after the early return of lines 138-140; with an  *)
(* exhausted heap rewound to the slots behind the placeholder.              *)
next_call_unchecked(v, c) ==
    LET took == next_take(v, c)
        c1 == c - 1
    IN  IF took.panic
        THEN [count |-> c, items |-> v, swaps |-> 0, panic |-> TRUE, ret |-> None]
        ELSE IF c1 = 0
        THEN [count |-> c1, items |-> took.items, swaps |-> 0, panic |-> FALSE,
              ret |-> Some(took.root_value)]
        ELSE LET r == bubble_down(took.items, c1, 1, 0)
             IN  [count |-> c1, items |-> r.items, swaps |-> r.swaps,
                  panic |-> r.panic,
                  ret |-> IF r.panic THEN None ELSE Some(took.root_value)]

next_call_late_decrement(v, c) ==
    IF is_empty(v, c)
    THEN [count |-> c, items |-> v, swaps |-> 0, panic |-> FALSE, ret |-> None]
    ELSE LET took == next_take(v, c)
             c1 == c - 1
         IN  IF took.panic
             THEN [count |-> c, items |-> v, swaps |-> 0, panic |-> TRUE, ret |-> None]
             ELSE IF c1 = 0
             THEN [count |-> c, items |-> took.items, swaps |-> 0, panic |-> FALSE,
                   ret |-> Some(took.root_value)]
             ELSE LET r == bubble_down(took.items, c1, 1, 0)
                  IN  [count |-> c1, items |-> r.items, swaps |-> r.swaps,
                       panic |-> r.panic,
                       ret |-> IF r.panic THEN None ELSE Some(took.root_value)]

next_call_rewinds(v, c) ==
    IF is_empty(v, c)
    THEN [count |-> VecLen(v) - 1, items |-> v, swaps |-> 0, panic |-> FALSE, ret |-> None]
    ELSE LET took == next_take(v, c)
             c1 == c - 1
         IN  IF took.panic
             THEN [count |-> c, items |-> v, swaps |-> 0, panic |-> TRUE, ret |-> None]
             ELSE IF c1 = 0
             THEN [count |-> c1, items |-> took.items, swaps |-> 0, panic |-> FALSE,
                   ret |-> Some(took.root_value)]
             ELSE LET r == bubble_down(took.items, c1, 1, 0)
                  IN  [count |-> c1, items |-> r.items, swaps |-> r.swaps,
                       panic |-> r.panic,
                       ret |-> IF r.panic THEN None ELSE Some(took.root_value)]

(* next on a heap with items v and count c: the fields it leaves, the       *)
(* exchanges it made and what it returns.                                   *)
next_call(v, c) ==
    IF is_empty(v, c)
    THEN [count |-> c, items |-> v, swaps |-> 0, panic |-> FALSE, ret |-> None]
    ELSE LET took == next_take(v, c)
             c1 == c - 1
         IN  IF took.panic
             THEN [count |-> c, items |-> v, swaps |-> 0, panic |-> TRUE, ret |-> None]
             ELSE IF c1 = 0
             THEN [count |-> c1, items |-> took.items, swaps |-> 0, panic |-> FALSE,
                   ret |-> Some(took.root_value)]
             ELSE LET r == bubble_down(took.items, c1, 1, 0)
                  IN  [count |-> c1, items |-> r.items, swaps |-> r.swaps,
                       panic |-> r.panic,
                       ret |-> IF r.panic THEN None ELSE Some(took.root_value)]

(***************************************************************************)
(* The record of calls.                                                     *)
(***************************************************************************)

(* An add call was made with value: a new run of next calls begins at the   *)
(* count c it leaves.                                                       *)
NoteAdd(value, c) ==
    /\ lastOp' = "add"
    /\ arg' = value
    /\ result' = None
    /\ prev' = None
    /\ lenSeen' = <<>>
    /\ emptySeen' = <<>>
    /\ runStart' = c
    /\ runLen' = 0
    /\ nAdds' = nAdds + 1
    /\ preCount' = count
    /\ preItems' = items
    /\ UNCHANGED <<exhausted, preExhausted, nSome>>

(* A next call was made. *)
NoteNextCall ==
    /\ lastOp' = "next"
    /\ lenSeen' = <<>>
    /\ emptySeen' = <<>>
    /\ runLen' = runLen + 1
    /\ preCount' = count
    /\ preItems' = items
    /\ preExhausted' = exhausted
    /\ UNCHANGED <<arg, runStart, nAdds>>

(* The next call returned r. *)
NoteNextReturn(r) ==
    /\ result' = r
    /\ prev' = result
    /\ exhausted' = (exhausted \/ r = None)
    /\ nSome' = IF r = None THEN nSome ELSE nSome + 1

(* The next call has not returned yet. *)
NoteNextRunning == UNCHANGED <<result, prev, exhausted, nSome>>

NoteUnchanged ==
    UNCHANGED <<lastOp, arg, result, prev, lenSeen, emptySeen, runStart, runLen,
                exhausted, preExhausted, nAdds, nSome, preCount, preItems>>

(***************************************************************************)
(* The operations, each call as one step.                                   *)
(***************************************************************************)

Init ==
    /\ comparator \in Comparators
    /\ count = 0
    /\ items = [i \in {0} |-> Default]
    /\ panicked = FALSE
    /\ pc = "idle"
    /\ idx = 0
    /\ root_value = Default
    /\ swaps = 0
    /\ lastOp = "new"
    /\ arg = Default
    /\ result = None
    /\ prev = None
    /\ lenSeen = <<>>
    /\ emptySeen = <<>>
    /\ runStart = 0
    /\ runLen = 0
    /\ exhausted = FALSE
    /\ preExhausted = FALSE
    /\ nAdds = 0
    /\ nSome = 0
    /\ preCount = 0
    /\ preItems = [i \in {0} |-> Default]

Callable == pc = "idle" /\ ~panicked

add(value) ==
    /\ Callable
    /\ nAdds < MaxAdds
    /\ LET r == add_call(items, count, value)
       IN  /\ count' = r.count
           /\ items' = r.items
           /\ swaps' = r.swaps
           /\ panicked' = r.panic
           /\ NoteAdd(value, r.count)
    /\ UNCHANGED <<comparator, locals>>

next ==
    /\ Callable
    /\ is_empty(items, count) => runLen - runStart < MaxNone
    /\ LET r == next_call(items, count)
       IN  /\ count' = r.count
           /\ items' = r.items
           /\ swaps' = r.swaps
           /\ panicked' = r.panic
           /\ NoteNextCall
           /\ NoteNextReturn(r.ret)
    /\ UNCHANGED <<comparator, locals>>

call_len ==
    /\ Callable
    /\ lenSeen' = <<len(items, count)>>
    /\ UNCHANGED <<heap, panicked, locals, swaps, lastOp, arg, result, prev, emptySeen,
                   runStart, runLen, exhausted, preExhausted, nAdds, nSome,
                   preCount, preItems>>

call_is_empty ==
    /\ Callable
    /\ emptySeen' = <<is_empty(items, count)>>
    /\ UNCHANGED <<heap, panicked, locals, swaps, lastOp, arg, result, prev, lenSeen,
                   runStart, runLen, exhausted, preExhausted, nAdds, nSome,
                   preCount, preItems>>

Next ==
    \/ \E value \in Values : add(value)
    \/ next
    \/ call_len
    \/ call_is_empty

Spec == Init /\ [][Next]_vars

(***************************************************************************)
(* The same operations with each evaluation of a loop as one step.  A call  *)
(* begins only when no call is running (pc = "idle") and runs to its        *)
(* return: the code is synchronous, so a loop that can go on does go on,    *)
(* which is the weak fairness of loop_step.                                 *)
(***************************************************************************)

(* Lines 38-48 of add. *)
add_begin(value) ==
    /\ Callable
    /\ nAdds < MaxAdds
    /\ LET c1 == count + 1
           placed == add_place(items, c1, value)
       IN  /\ count' = c1
           /\ items' = placed.items
           /\ panicked' = placed.panic
           /\ idx' = c1
           /\ pc' = IF placed.panic THEN "idle" ELSE "up"
           /\ NoteAdd(value, c1)
    /\ swaps' = 0
    /\ UNCHANGED <<comparator, root_value>>

(* Lines 49-60: the loop's condition and, when it holds, its body. *)
up_step ==
    /\ pc = "up" /\ ~panicked
    /\ LET r == up_iter(items, idx)
       IN  /\ items' = r.items
           /\ idx' = r.idx
           /\ panicked' = r.panic
           /\ pc' = IF r.done THEN "idle" ELSE "up"
           /\ swaps' = IF r.done THEN swaps ELSE swaps + 1
    /\ NoteUnchanged
    /\ UNCHANGED <<count, comparator, root_value>>

(* Lines 125-143 of next. *)
next_begin ==
    /\ Callable
    /\ is_empty(items, count) => runLen - runStart < MaxNone
    /\ NoteNextCall
    /\ swaps' = 0
    /\ IF is_empty(items, count)
       THEN /\ NoteNextReturn(None)
            /\ UNCHANGED <<count, items, panicked, locals>>
       ELSE LET took == next_take(items, count)
                c1 == count - 1
            IN  IF took.panic
                THEN /\ panicked' = TRUE
                     /\ NoteNextReturn(None)
                     /\ UNCHANGED <<count, items, locals>>
                ELSE /\ count' = c1
                     /\ items' = took.items
                     /\ root_value' = took.root_value
                     /\ panicked' = FALSE
                     /\ IF c1 = 0
                        THEN /\ NoteNextReturn(Some(took.root_value))
                             /\ UNCHANGED <<pc, idx>>
                        ELSE /\ NoteNextRunning
                             /\ pc' = "down"
                             /\ idx' = 1
    /\ UNCHANGED comparator

(* Lines 144-157: the loop's condition and, when it holds, its body; the    *)
(* return when it does not.                                                 *)
down_step ==
    /\ pc = "down" /\ ~panicked
    /\ LET r == down_iter(items, count, idx)
       IN  /\ items' = r.items
           /\ idx' = r.idx
           /\ panicked' = r.panic
           /\ pc' = IF r.done THEN "idle" ELSE "down"
           /\ swaps' = IF r.done THEN swaps ELSE swaps + 1
           /\ IF r.done
              THEN NoteNextReturn(IF r.panic THEN None ELSE Some(root_value))
              ELSE NoteNextRunning
    /\ UNCHANGED <<lastOp, arg, lenSeen, emptySeen, runStart, runLen, preExhausted,
                   nAdds, preCount, preItems>>
    /\ UNCHANGED <<count, comparator, root_value>>

NextSteps ==
    \/ \E value \in Values : add_begin(value)
    \/ up_step
    \/ next_begin
    \/ down_step

(* A step of whichever loop is running. *)
loop_step == up_step \/ down_step

SpecSteps ==
    /\ Init
    /\ [][NextSteps]_vars
    /\ WF_vars(loop_step)

(* Once a call has returned, the steps have left what the call as one step  *)
(* leaves.                                                                  *)
StepsAgree ==
    /\ (pc = "idle" /\ lastOp = "add") =>
          LET r == add_call(preItems, preCount, arg)
          IN  <<count, items, swaps, panicked>> = <<r.count, r.items, r.swaps, r.panic>>
    /\ (pc = "idle" /\ lastOp = "next") =>
          LET r == next_call(preItems, preCount)
          IN  <<count, items, swaps, panicked, result>>
                = <<r.count, r.items, r.swaps, r.panic, r.ret>>

(***************************************************************************)
(* Properties.  A heap "built with new_min or new_max" is one whose         *)
(* comparator is < or >; Completed says no call is running and none         *)
(* panicked.                                                                *)
(***************************************************************************)

MinOrMax == comparator \in {new_min, new_max}
Completed == pc = "idle" /\ ~panicked
Live == 1 .. count
PreLive == 1 .. preCount

(* C1 as stated: after every completed add and next on a min- or max-heap,  *)
(* priority(items[i/2], items[i]) holds for every live index i > 1, also    *)
(* when the same value was added more than once.                            *)
C1_StrictHeapProperty ==
    (MinOrMax /\ Completed) =>
        \A i \in Live : i > 1 => priority(items[parent_idx(i)], items[i])

(* C1 amended: after every completed add and next on a min- or max-heap,    *)
(* for every live index i > 1 either priority(items[i/2], items[i]) holds   *)
(* or the two slots hold equal values.                                      *)
C1_HeapProperty ==
    (MinOrMax /\ Completed) =>
        \A i \in Live : i > 1 =>
            \/ priority(items[parent_idx(i)], items[i])
            \/ items[parent_idx(i)] = items[i]

(* C1 witness: after an extraction from a heap that had been added to five  *)
(* times, three live levels remain, with a parent strictly before one child *)
(* and equal to another.                                                    *)
C1_Witness ==
    /\ MinOrMax /\ Completed
    /\ lastOp = "next" /\ result # None
    /\ count >= 4
    /\ \E i \in Live : i > 1 /\ priority(items[parent_idx(i)], items[i])
    /\ \E i \in Live : i > 1 /\ items[parent_idx(i)] = items[i]
    /\ swaps >= 1

(* C2: a successful next returns the value that was at the root, and on a   *)
(* min-heap that value is <= every element live just before the call, on a  *)
(* max-heap >= every such element.                                          *)
C2_ReturnsMostPreferred ==
    (MinOrMax /\ Completed /\ lastOp = "next" /\ preCount > 0) =>
        /\ result = Some(preItems[1])
        /\ comparator = new_min => \A i \in PreLive : result[1] <= preItems[i]
        /\ comparator = new_max => \A i \in PreLive : result[1] >= preItems[i]

(* C2 witness: an extraction that follows an add made after an earlier      *)
(* extraction, from a heap of at least three elements not all equal.        *)
C2_Witness ==
    /\ MinOrMax /\ Completed
    /\ lastOp = "next" /\ runLen = 1 /\ nSome >= 2
    /\ preCount >= 3
    /\ result # None
    /\ \E i \in PreLive : preItems[i] # result[1]

(* C3: on a min-heap, of two values returned by consecutive next calls with *)
(* no add between, the first is <= the second.                              *)
C3_MinOrder ==
    (comparator = new_min /\ Completed /\ runLen >= 2 /\ prev # None /\ result # None) =>
        prev[1] <= result[1]

(* C3 witness: the third extraction in a row from a min-heap returns a      *)
(* value larger than the second, and an equal value is still live.          *)
C3_Witness ==
    /\ comparator = new_min /\ Completed
    /\ runLen >= 3 /\ prev # None /\ result # None
    /\ prev[1] < result[1]
    /\ count >= 1 /\ items[1] = result[1]

(* C4: on a max-heap, of two values returned by consecutive next calls with *)
(* no add between, the first is >= the second.                              *)
C4_MaxOrder ==
    (comparator = new_max /\ Completed /\ runLen >= 2 /\ prev # None /\ result # None) =>
        prev[1] >= result[1]

(* C4 witness: the third extraction in a row from a max-heap returns a      *)
(* value smaller than the second, and an equal value is still live.         *)
C4_Witness ==
    /\ comparator = new_max /\ Completed
    /\ runLen >= 3 /\ prev # None /\ result # None
    /\ prev[1] > result[1]
    /\ count >= 1 /\ items[1] = result[1]

(* C5 as stated: for two values a, b returned by consecutive next calls     *)
(* with no add between, priority(a, b) holds (a < b on a min-heap, a > b on *)
(* a max-heap).                                                             *)
C5_StrictPriorityOrder ==
    (MinOrMax /\ Completed /\ runLen >= 2 /\ prev # None /\ result # None) =>
        priority(prev[1], result[1])

(* C5 amended: for two values a, b returned by consecutive next calls with  *)
(* no add between, priority(a, b) holds or a = b.                           *)
C5_PriorityOrder ==
    (MinOrMax /\ Completed /\ runLen >= 2 /\ prev # None /\ result # None) =>
        (priority(prev[1], result[1]) \/ prev[1] = result[1])

(* C5 witness: a run of four extractions whose last two returned the same   *)
(* value, from a heap that also held a different one.                       *)
C5_Witness ==
    /\ MinOrMax /\ Completed
    /\ runLen >= 4 /\ prev # None /\ result # None
    /\ prev[1] = result[1]
    /\ \E i \in Live : items[i] # result[1]

(* C6: len() is the number of add calls minus the number of next calls that *)
(* returned a value; an add raises count by exactly 1, a next that returns  *)
(* a value lowers it by exactly 1, a next that returns None leaves it.      *)
C6_CountCorrect ==
    Completed =>
        /\ len(items, count) = nAdds - nSome
        /\ lastOp = "add" => count = preCount + 1
        /\ (lastOp = "next" /\ result # None) => count = preCount - 1
        /\ (lastOp = "next" /\ result = None) => count = preCount

(* C6 witness: three elements are live after five adds, two successful      *)
(* extractions and one that returned None.                                  *)
C6_Witness ==
    /\ Completed
    /\ nAdds = 5 /\ nSome = 2 /\ exhausted
    /\ len(items, count) = 3
    /\ lastOp = "next" /\ result # None

(* C7: next on an empty heap returns None and does not panic, on a fresh    *)
(* heap as on a drained one.                                                *)
C7_EmptyYieldsNone ==
    (pc = "idle" /\ lastOp = "next" /\ preCount = 0) =>
        (~panicked /\ result = None /\ count = 0)

(* C7 witness: next returned None on the fresh heap, then the heap was      *)
(* filled with three elements and drained, and next returned None again.    *)
C7_Witness ==
    /\ pc = "idle" /\ lastOp = "next" /\ preCount = 0
    /\ result = None
    /\ nAdds >= 3 /\ nSome = nAdds
    /\ runStart >= 1 /\ runLen = runStart + 1
    /\ preExhausted
    /\ VecLen(items) >= 4

(* C8: in a run of next calls with no add between that began at len() = n,  *)
(* the first n calls each return a value, then is_empty() is true, and      *)
(* every later call of the run returns None.                                *)
C8_Exhaustion ==
    (Completed /\ runLen >= 1) =>
        /\ result # None <=> runLen <= runStart
        /\ count = IF runLen <= runStart THEN runStart - runLen ELSE 0
        /\ runLen >= runStart => is_empty(items, count)

(* C8 witness: a run that began with four live elements has just made its   *)
(* fifth call, which returned None after the fourth returned a value.       *)
C8_Witness ==
    /\ Completed
    /\ runStart >= 4 /\ runLen = runStart + 1
    /\ result = None /\ prev # None
    /\ is_empty(items, count)

(* C9 as stated: once a next call has returned None, every later next call  *)
(* returns None, whatever calls of add, len and is_empty come between.      *)
C9_NonRestartable ==
    (Completed /\ lastOp = "next" /\ preExhausted) => result = None

(* C9 amended: once a next call has returned None, every later next call    *)
(* returns None as long as no add is called in between; calls of len and    *)
(* is_empty in between change nothing.                                      *)
C9_ExhaustedUntilAdd ==
    (Completed /\ lastOp = "next" /\ runLen >= 2 /\ prev = None) => result = None

(* C9 witness: a filled heap was drained and next returned None twice in a  *)
(* row; len and is_empty, called since, returned 0 and true.                *)
C9_Witness ==
    /\ Completed /\ lastOp = "next"
    /\ runStart >= 2 /\ runLen = runStart + 2
    /\ prev = None /\ result = None
    /\ lenSeen = <<0>> /\ emptySeen = <<TRUE>>

(* floor(log2(n)) for n >= 1. *)
RECURSIVE Log2(_)
Log2(n) == IF n <= 1 THEN 0 ELSE 1 + Log2(n \div 2)

(* Where the loops are when they end. *)
UpLoopEnded ==
    \/ idx = 1
    \/ priority(items[parent_idx(idx)], items[idx])

DownLoopEnded ==
    \/ ~children_present(count, idx)
    \/ priority(items[idx], items[smallest_child_idx(items, count, idx)])

(* C10: with any comparator (<, >, always false, always true) every add and *)
(* every next that has begun returns; the bubble-up loop makes at most      *)
(* floor(log2(count)) exchanges and ends with idx at the root or with the   *)
(* parent having priority; the bubble-down loop ends with idx having no     *)
(* live child or having priority over its preferred child.                  *)
C10_Terminates ==
    /\ (pc # "idle") ~> (pc = "idle")
    /\ [](lastOp = "add" => swaps <= Log2(count))
    /\ []((pc = "idle" /\ lastOp = "add") => (~panicked /\ UpLoopEnded))
    /\ []((pc = "idle" /\ lastOp = "next" /\ preCount >= 2) =>
            (~panicked /\ DownLoopEnded))

(* C10 witness: with the comparator that is always false, the fifth add has *)
(* returned after floor(log2(5)) = 2 exchanges with idx at the root, after  *)
(* an extraction whose bubble-down loop ran.                                *)
C10_Witness ==
    /\ comparator = "never"
    /\ pc = "idle" /\ lastOp = "add" /\ ~panicked
    /\ count >= 4 /\ swaps = Log2(count) /\ swaps >= 2
    /\ idx = 1
    /\ nSome >= 1 /\ nAdds >= 5

(* The child of i that is not ch. *)
OtherChild(i, ch) ==
    IF ch = left_child_idx(i) THEN right_child_idx(i) ELSE left_child_idx(i)

(* C11 as stated: at an index with one live child that child is selected;   *)
(* with two live children the selected child c and the other child o        *)
(* satisfy priority(c, o), also when the two children are equal.            *)
C11_StrictPreferredChild ==
    (MinOrMax /\ ~panicked) =>
        \A i \in Live : children_present(count, i) =>
            LET ch == smallest_child_idx(items, count, i)
            IN  IF right_child_idx(i) > count
                THEN ch = left_child_idx(i)
                ELSE /\ ch \in {left_child_idx(i), right_child_idx(i)}
                     /\ priority(items[ch], items[OtherChild(i, ch)])

(* C11 amended: at an index with one live child that child is selected;     *)
(* with two live children the selected child c and the other child o        *)
(* satisfy priority(c, o), or the two children are equal and the right one  *)
(* is selected.                                                             *)
C11_PreferredChild ==
    (MinOrMax /\ ~panicked) =>
        \A i \in Live : children_present(count, i) =>
            LET ch == smallest_child_idx(items, count, i)
            IN  IF right_child_idx(i) > count
                THEN ch = left_child_idx(i)
                ELSE /\ ch \in {left_child_idx(i), right_child_idx(i)}
                     /\ \/ priority(items[ch], items[OtherChild(i, ch)])
                        \/ /\ items[ch] = items[OtherChild(i, ch)]
                           /\ ch = right_child_idx(i)

(* C11 witness: the bubble-down loop is at the root of a heap of four, the  *)
(* root's two children are equal and the right one is selected and is to be *)
(* exchanged with the root; index 2 has the single child 4.                 *)
C11_Witness ==
    /\ MinOrMax /\ ~panicked
    /\ pc = "down" /\ idx = 1 /\ count = 4
    /\ items[2] = items[3]
    /\ smallest_child_idx(items, count, 1) = 3
    /\ ~priority(items[1], items[3])
    /\ smallest_child_idx(items, count, 2) = 4

(* Occurrences of x at the live indices 1 .. c of v, and 1 if a = b. *)
Occ(v, c, x) == Cardinality({i \in 1 .. c : v[i] = x})
One(a, b) == IF a = b THEN 1 ELSE 0

(* C12: the multiset of live values after add(v), and at every exchange of  *)
(* its bubble-up loop, is the old one plus one occurrence of v; after a     *)
(* next that returns a value, and at every exchange of its bubble-down      *)
(* loop, it is the old one minus one occurrence of that value; a next that  *)
(* returns None leaves it as it was.                                        *)
C12_Conservation ==
    ~panicked =>
        \A x \in Values :
            /\ lastOp = "add" =>
                 Occ(items, count, x) = Occ(preItems, preCount, x) + One(x, arg)
            /\ (lastOp = "next" /\ pc = "down") =>
                 Occ(items, count, x) = Occ(preItems, preCount, x) - One(x, root_value)
            /\ (lastOp = "next" /\ pc = "idle" /\ preCount > 0) =>
                 /\ result # None
                 /\ Occ(items, count, x) = Occ(preItems, preCount, x) - One(x, result[1])
            /\ (lastOp = "next" /\ preCount = 0) =>
                 /\ result = None
                 /\ Occ(items, count, x) = Occ(preItems, preCount, x)

(* C12 witness: next has returned a value other than the default from a     *)
(* heap of five that held it twice, after at least one exchange; one        *)
(* occurrence is left among the four live values.                           *)
C12_Witness ==
    /\ ~panicked /\ pc = "idle" /\ lastOp = "next"
    /\ preCount = 5 /\ count = 4 /\ swaps >= 1
    /\ result # None /\ result[1] # Default
    /\ Occ(preItems, preCount, result[1]) = 2
    /\ Occ(items, count, result[1]) = 1

(* C13: after every completed add and next on a min- or max-heap, no live   *)
(* child has priority over its parent: priority(items[i], items[i/2]) is    *)
(* false for every live index i > 1.                                        *)
C13_WeakHeapOrder ==
    (MinOrMax /\ Completed) =>
        \A i \in Live : i > 1 => ~priority(items[i], items[parent_idx(i)])

(* C13 witness: the fifth add, of a value already live, has returned after  *)
(* an exchange; one child equals its parent and another comes strictly      *)
(* after its parent.                                                        *)
C13_Witness ==
    /\ MinOrMax /\ Completed
    /\ lastOp = "add" /\ count = 5 /\ swaps >= 1
    /\ Occ(items, count, arg) >= 2
    /\ \E i \in Live : i > 1 /\ items[i] = items[parent_idx(i)]
    /\ \E i \in Live : i > 1 /\ priority(items[parent_idx(i)], items[i])

(* The slots the running loop reads or exchanges next. *)
LoopSlots ==
    IF pc = "up"
    THEN IF idx > 1 THEN {idx, parent_idx(idx)} ELSE {}
    ELSE IF pc = "down" /\ children_present(count, idx)
    THEN {idx, smallest_child_idx(items, count, idx)} \cup smallest_child_reads(count, idx)
    ELSE {}

(* C14: the Vec has at least count + 1 slots and never fewer than before    *)
(* the call; add pushes a slot exactly when count + 1 is the Vec's length   *)
(* and otherwise overwrites slot count + 1, changing no other slot; no call *)
(* panics; the slots the loops read and exchange are live slots of the Vec, *)
(* never slot 0; count is never below 0.                                    *)
C14_IndexSafety ==
    /\ ~panicked
    /\ count >= 0
    /\ VecLen(items) >= count + 1
    /\ VecLen(items) >= VecLen(preItems)
    /\ lastOp = "add" =>
         /\ count = preCount + 1
         /\ VecLen(items) = IF preCount + 1 = VecLen(preItems)
                            THEN VecLen(preItems) + 1 ELSE VecLen(preItems)
    /\ (lastOp = "add" /\ pc = "up" /\ swaps = 0) =>
         /\ idx = count
         /\ items[count] = arg
         /\ \A i \in DOMAIN preItems : i # count => items[i] = preItems[i]
    /\ lastOp = "next" => VecLen(items) = VecLen(preItems)
    /\ pc \in {"up", "down"} => idx \in Live
    /\ LoopSlots \subseteq (DOMAIN items \cap Live)
    /\ items[0] = Default

(* C14 witness: add has overwritten slot 3 of a Vec of five slots, left by  *)
(* two extractions from a heap of four, with a value other than the         *)
(* default, and its loop is about to compare slots 3 and 1.                 *)
C14_Witness ==
    /\ ~panicked /\ lastOp = "add" /\ pc = "up" /\ swaps = 0
    /\ preCount = 2 /\ VecLen(preItems) = 5 /\ VecLen(items) = 5
    /\ arg # Default /\ items[3] = arg /\ preItems[3] = Default
    /\ LoopSlots = {1, 3}

(* A step that is a call of next on an empty heap. *)
NextOnEmpty == count = 0 /\ pc = "idle" /\ runLen' = runLen + 1

(* C15: a next call at count = 0 returns None without panicking and leaves  *)
(* count, the Vec (its length and every slot) and the comparator as they    *)
(* were.                                                                    *)
C15_EmptyNextChangesNothing ==
    [][NextOnEmpty =>
         /\ result' = None
         /\ ~panicked'
         /\ count' = count
         /\ items' = items
         /\ comparator' = comparator]_vars

(* C15 witness: the first next call after a heap of at least three was      *)
(* drained has returned None, with the Vec of four or more slots as it was. *)
C15_Witness ==
    /\ Completed /\ lastOp = "next"
    /\ preCount = 0 /\ count = 0
    /\ result = None /\ prev # None
    /\ VecLen(items) >= 4 /\ items = preItems

(* C16: after every completed add and next, slot 0 and every slot beyond    *)
(* count hold the default value.                                            *)
C16_PlaceholderSlots ==
    Completed =>
        /\ items[0] = Default
        /\ \A i \in DOMAIN items : i > count => items[i] = Default

(* C16 witness: next has returned a value other than the default from a     *)
(* heap of two in a Vec of five slots; the slot the last live value was     *)
(* moved from, which held a value other than the default, holds the default.*)
C16_Witness ==
    /\ Completed /\ lastOp = "next"
    /\ preCount = 2 /\ count = 1 /\ VecLen(items) >= 5
    /\ result # None /\ result[1] # Default
    /\ preItems[2] # Default /\ items[1] = preItems[2]
    /\ \A i \in 2 .. VecLen(items) - 1 : items[i] = Default

====
